---- MODULE Spec2Model ----
(***************************************************************************)
(* Model of the bazel-aws-maven-proxy credential helpers:                  *)
(*   credential-monitor/monitor.py   the filesystem watcher (debounce)     *)
(*   credential-renewer/renewer.py   the polling renewal loop              *)
(*   sso-authenticator/*.py          the browser driven login              *)
(* Each script is a process of its own; each has its own specification.    *)
(***************************************************************************)
EXTENDS Integers, Sequences, FiniteSets, TLC

VARIABLES
    \* ---- credential-monitor ----
    now,              \* time.time() of the monitor process, whole seconds
    last_event_time,  \* CredentialEventHandler.last_event_time
    watches,          \* what observer.schedule() registered
    observer,         \* "running" | "crashed" (dispatch thread died)
    handler,          \* the dispatch thread: "idle" | "blocked" in a restart
    running,          \* restart commands started and not yet finished
    mpc,              \* position of the main thread in start_monitoring
    stop_called,      \* observer.stop() was called
    joined,           \* observer.join() returned
    restarts,         \* history: calls of subprocess.run by the handler
    log,              \* history: one record per call of on_modified
    \* ---- credential-renewer ----
    rnow,             \* UTC clock of the renewer process, whole seconds
    rpc,              \* position of renewer.main
    dirExists,        \* SSO_CACHE_DIR exists
    cache,            \* entries of SSO_CACHE_DIR, by relative path
    json_files,       \* find_sso_token_file: the list returned by glob
    keys,             \* find_sso_token_file: st_mtime of the files seen so far
    token_file,       \* result of find_sso_token_file ("None" or a name)
    due,              \* result of check_token_expiration ("unknown" before)
    login,            \* result of perform_sso_login in this cycle
    cycle,            \* history: number of cycles started
    trace,            \* history: the steps of the current cycle
    cond,             \* history: token-store condition met in this cycle
    ended,            \* history: how the previous cycle ended, and its sleep
    fsOps,            \* history: writes and deletes by other processes
    check_interval,   \* CHECK_INTERVAL as read from the environment
    renewal_threshold,\* RENEWAL_THRESHOLD as read from the environment
    slack,            \* seconds the work of the current cycle has taken
    unrenewed,        \* history: the first token found not due since the last login
    renewed,          \* history: the last such token a login was then invoked for
    \* ---- perform_sso_login ----
    strategy,         \* which perform_sso_login runs
    MAX_RETRIES,      \* the configured maximum number of attempts
    haveCreds,        \* SSO_USERNAME and SSO_PASSWORD are set
    configState,      \* what get_sso_config finds
    apc,              \* position of perform_sso_login
    attempt,          \* the loop variable of the browser start
    browser,          \* "unbound" | "open" | "closed"
    pending,          \* the return in progress while finally runs
    a_result,         \* what the call gave: "True", "False" or "raised"
    inits,            \* history: browser starts attempted
    flows,            \* history: login sequences (or commands) run
    delays,           \* history: the sleeps between attempts
    quits,            \* history: calls of browser.quit or browser.close
    failure,          \* history: "none", "config", "init" or "auth"
    unbound_uses,     \* history: uses of the name browser while it is unbound
    \* ---- authenticator main and extract_and_update_credentials ----
    xpc,              \* position of extract_and_update_credentials
    env_file,         \* ENV_FILE on disk
    env_prev,         \* history: ENV_FILE when the script started
    creds,            \* what "aws configure get" gave
    env_lines,        \* the text assembled for writing
    x_result,         \* what extract_and_update_credentials returned
    proxy,            \* history: outcome of "docker-compose restart s3proxy"
    exit_code,        \* what main returned: "0" or "1"
    \* ---- functions applied to enumerated inputs ----
    arg,              \* the input
    res               \* the result, once the function was applied

monVars == <<now, last_event_time, watches, observer, handler, running, mpc,
             stop_called, joined, restarts, log>>

renVars == <<rnow, rpc, dirExists, cache, json_files, keys, token_file, due,
             login, cycle, trace, cond, ended, fsOps, check_interval,
             renewal_threshold, slack, unrenewed, renewed>>

loginVars == <<strategy, MAX_RETRIES, haveCreds, configState, apc, attempt,
               browser, pending, a_result, inits, flows, delays, quits, failure,
               unbound_uses>>

mainVars == <<xpc, env_file, env_prev, creds, env_lines, x_result, proxy,
              exit_code>>

authVars == <<loginVars, mainVars>>

fnVars == <<arg, res>>

vars == <<monVars, renVars, authVars, fnVars>>

(***************************************************************************)
(* Bounds of the exploration.                                              *)
(***************************************************************************)
StartTime == 100
MaxElapsed == 20
MaxEvents == 3
RStart == 1000
MaxCycles == 3
MaxFsOps == 2
MaxMtime == 2
MaxRetries == 3
MaxFileLen == 4
MaxSlack == 1

(***************************************************************************)
(* Paths are character sequences, so that str.startswith is a prefix test  *)
(* on characters and not on path components.                               *)
(***************************************************************************)
Sep == "/"

startswith(p, q) == Len(q) <= Len(p) /\ SubSeq(p, 1, Len(q)) = q

join(a, b) == a \o <<Sep>> \o b

\* os.path.dirname of a path without a trailing separator
RECURSIVE dirname(_)
dirname(p) ==
    IF p = <<>> THEN <<>>
    ELSE IF p[Len(p)] = Sep
         THEN (IF Len(p) = 1 THEN p ELSE SubSeq(p, 1, Len(p) - 1))
         ELSE dirname(SubSeq(p, 1, Len(p) - 1))

AWS_DIR == <<Sep, "a">>
CREDENTIAL_FILE == join(AWS_DIR, <<"c">>)
CONFIG_FILE == join(AWS_DIR, <<"g">>)
SSO_CACHE_DIR == join(AWS_DIR, <<"s", Sep, "k">>)

cooldown_period == 5

\* p is strictly below directory d
IsUnder(p, d) == startswith(p, d \o <<Sep>>) /\ Len(p) > Len(d) + 1

\* p is an entry of directory d itself
IsChild(p, d) ==
    /\ IsUnder(p, d)
    /\ \A i \in (Len(d) + 2)..Len(p) : p[i] # Sep

(***************************************************************************)
(* The part of the filesystem that can change while the monitor runs.      *)
(***************************************************************************)
FsNodes ==
    { [src_path |-> CREDENTIAL_FILE,                  is_directory |-> FALSE],
      [src_path |-> CONFIG_FILE,                      is_directory |-> FALSE],
      [src_path |-> join(AWS_DIR, <<"x">>),           is_directory |-> FALSE],
      [src_path |-> join(AWS_DIR, <<"s", Sep, "k", "x">>), is_directory |-> FALSE],
      [src_path |-> SSO_CACHE_DIR,                    is_directory |-> TRUE],
      [src_path |-> join(SSO_CACHE_DIR, <<"t">>),     is_directory |-> FALSE],
      [src_path |-> join(SSO_CACHE_DIR, <<"d", Sep, "t">>), is_directory |-> FALSE],
      [src_path |-> <<Sep, "o">>,                     is_directory |-> FALSE] }

\* (variant: the parent directory of a file is watched recursively)
ScheduleFileRecursive(path) == [path |-> dirname(path), recursive |-> TRUE]

\* a watch for one of paths_to_watch: a directory is watched recursively,
\* a file through its parent directory, not recursively
ScheduleFile(path) == [path |-> dirname(path), recursive |-> FALSE]

ScheduleDir(path) == [path |-> path, recursive |-> TRUE]

\* start_monitoring: the cache directory is created, so always watched; a
\* credentials or config file is watched only if it exists at start-up
start_monitoring(credExists, confExists) ==
    {ScheduleDir(SSO_CACHE_DIR)}
      \cup (IF credExists THEN {ScheduleFile(CREDENTIAL_FILE)} ELSE {})
      \cup (IF confExists THEN {ScheduleFile(CONFIG_FILE)} ELSE {})

\* the observer hands a modification of node n to the handler of watch w
Delivers(w, n) ==
    \/ n.src_path = w.path
    \/ IsChild(n.src_path, w.path)
    \/ w.recursive /\ IsUnder(n.src_path, w.path)

Deliverable == { n \in FsNodes : \E w \in watches : Delivers(w, n) }

\* the condition of on_modified that selects credential artefacts
IsCredentialPath(src_path) ==
    \/ src_path = CREDENTIAL_FILE
    \/ src_path = CONFIG_FILE
    \/ startswith(src_path, SSO_CACHE_DIR)

\* outcomes of subprocess.run(["docker-compose", ...], check=True) in
\* _restart_s3proxy: "ok", "failed" (CalledProcessError, caught and logged),
\* "oserror" (the command cannot be started; not caught)
RestartOutcomes == {"ok", "failed", "oserror"}

\* (variant: the cooldown lasts one second only)
InCooldownShort(current_time, last) == current_time - last < 1

\* (variant: an event exactly cooldown_period later is still suppressed)
InCooldownInclusive(current_time, last) == current_time - last <= cooldown_period

\* the cooldown test of on_modified
InCooldown(current_time, last) == current_time - last < cooldown_period

\* last_event_time after an event that passed the cooldown test
AcceptedTime(current_time, last, ev) == current_time

\* (variant: the command is started and not waited for)
HandlerLeavesRestart == "idle"

\* subprocess.run returns when the command has ended: the dispatch thread
\* stays in _restart_s3proxy until then
HandlerDuringRestart == "blocked"

(***************************************************************************)
(* CredentialEventHandler.on_modified(event), up to the return or to the   *)
(* call of subprocess.run in _restart_s3proxy. The observer's one dispatch *)
(* thread calls it, gap seconds after it finished the previous call;       *)
(* time.time() then reads current_time.                                    *)
(***************************************************************************)
on_modified(ev, gap) ==
    /\ observer = "running"
    /\ ~stop_called
    /\ handler = "idle"
    /\ Len(log) < MaxEvents
    /\ now + gap <= StartTime + MaxElapsed
    /\ ev \in Deliverable
    /\ LET current_time == now + gap
           cool == InCooldown(current_time, last_event_time)
           restart == ~cool /\ ~ev.is_directory /\ IsCredentialPath(ev.src_path)
       IN  /\ now' = current_time
           /\ last_event_time' =
                IF cool THEN last_event_time
                ELSE AcceptedTime(current_time, last_event_time, ev)
           /\ handler' = IF restart THEN HandlerDuringRestart ELSE handler
           /\ running' = IF restart THEN running + 1 ELSE running
           /\ restarts' = IF restart THEN restarts + 1 ELSE restarts
           /\ log' = Append(log,
                [src_path |-> ev.src_path, is_directory |-> ev.is_directory,
                 time |-> current_time, before |-> last_event_time,
                 after |-> last_event_time',
                 cooldown |-> cool, signal |-> restart,
                 restart |-> IF restart THEN "running" ELSE "none"])
    /\ UNCHANGED <<watches, observer, mpc, stop_called, joined>>

\* the oldest restart command still running
OldestRunning ==
    CHOOSE i \in 1..Len(log) :
        /\ log[i].restart = "running"
        /\ \A j \in 1..(i - 1) : log[j].restart # "running"

\* _restart_s3proxy: the command ends after duration seconds. "failed" is
\* logged and on_modified returns; "oserror" is not caught, leaves
\* on_modified and ends the dispatch thread
restart_returns(duration, outcome) ==
    /\ running > 0
    /\ now + duration <= StartTime + MaxElapsed
    /\ now' = now + duration
    /\ running' = running - 1
    /\ handler' = "idle"
    /\ observer' = IF outcome = "oserror" THEN "crashed" ELSE observer
    /\ log' = [log EXCEPT ![OldestRunning].restart = outcome]
    /\ UNCHANGED <<last_event_time, watches, restarts, mpc, stop_called, joined>>

(***************************************************************************)
(* start_monitoring after observer.start(): the main thread enters the try *)
(* block and sleeps; a KeyboardInterrupt reaches it wherever it is.        *)
(***************************************************************************)
S_EnterLoop ==
    /\ mpc = "started"
    /\ mpc' = "loop"
    /\ UNCHANGED <<now, last_event_time, watches, observer, handler, running,
                   stop_called, joined, restarts, log>>

\* KeyboardInterrupt: before the try block it leaves start_monitoring;
\* inside, the except branch calls observer.stop() and goes on to
\* observer.join(); during the join it leaves start_monitoring
S_Interrupt ==
    /\ mpc \in {"started", "loop", "join"}
    /\ mpc' = IF mpc = "loop" THEN "join" ELSE "exited"
    /\ stop_called' = (stop_called \/ mpc = "loop")
    /\ UNCHANGED <<now, last_event_time, watches, observer, handler, running,
                   joined, restarts, log>>

\* observer.join() returns once the dispatch thread has ended
S_Join ==
    /\ mpc = "join"
    /\ handler = "idle"
    /\ joined' = TRUE
    /\ mpc' = "exited"
    /\ UNCHANGED <<now, last_event_time, watches, observer, handler, running,
                   stop_called, restarts, log>>

Gaps == {1, 4, 5, 10}

\* how long the restart command runs: no time, or longer than the cooldown
Durations == {0, cooldown_period + 1}

HandlerIdle ==
    /\ handler = "idle" /\ running = 0 /\ restarts = 0
    /\ stop_called = FALSE /\ joined = FALSE
    /\ log = <<>>

\* the handler while the main thread sleeps in its loop
MonInit ==
    /\ now = StartTime
    /\ last_event_time = 0
    /\ \E credExists \in BOOLEAN, confExists \in BOOLEAN :
          watches = start_monitoring(credExists, confExists)
    /\ observer = "running"
    /\ mpc = "loop"
    /\ HandlerIdle

\* start_monitoring when observer.start() has returned
WatchInit ==
    /\ now = StartTime
    /\ last_event_time = 0
    /\ watches = start_monitoring(TRUE, TRUE)
    /\ observer = "running"
    /\ mpc = "started"
    /\ HandlerIdle

\* the monitor has not been started
MonIdle ==
    /\ now = StartTime
    /\ last_event_time = 0
    /\ watches = {}
    /\ observer = "stopped"
    /\ mpc = "idle"
    /\ HandlerIdle

(***************************************************************************)
(* credential-renewer/renewer.py                                           *)
(***************************************************************************)
CHECK_INTERVAL == 900
RENEWAL_THRESHOLD == 3600
ERROR_SLEEP == 60

\* lifetime of the token a successful "aws sso login" leaves in the cache
NewTokenLifetime == 4000

endswith(p, q) ==
    Len(q) <= Len(p) /\ SubSeq(p, Len(p) - Len(q) + 1, Len(p)) = q

\* ".j" stands for the extension ".json", ".t" for any other extension
JsonSuffix == <<".", "j">>
TokenA == <<"a", ".", "j">>
TokenB == <<"b", ".", "j">>
CacheNames == { TokenA, TokenB, <<"c", ".", "t">>, <<"d", Sep, "e", ".", "j">> }

None == <<>>

Absent == [present |-> FALSE]
File(m, c) == [present |-> TRUE, mtime |-> m, content |-> c]

\* contents of a cache file: not JSON at all, JSON without expiresAt, JSON
\* with expiresAt written as wall-clock seconds and a zone suffix
Malformed == [json |-> FALSE]
NoExpiry == [json |-> TRUE, has |-> FALSE]
WithExpiry(wall, suffix) ==
    [json |-> TRUE, has |-> TRUE, wall |-> wall, suffix |-> suffix]

\* the name has no directory part
IsEntry(n) == \A i \in 1..Len(n) : n[i] # Sep

\* Path(SSO_CACHE_DIR).glob('*.json'): the entries of the directory itself
\* whose name ends in .json; nothing for a directory that is not there
glob(dirOk, c) ==
    IF ~dirOk THEN {}
    ELSE { n \in DOMAIN c : c[n].present /\ IsEntry(n) /\ endswith(n, JsonSuffix) }

\* the orders in which the directory scan may list the set S
Orders(S) ==
    { f \in [1..Cardinality(S) -> S] :
        \A i, j \in 1..Cardinality(S) : i # j => f[i] # f[j] }

\* (variant: min instead of max)
MinByKey(files, ks) ==
    files[CHOOSE i \in 1..Len(files) :
            /\ \A j \in 1..Len(files) : ks[i] <= ks[j]
            /\ \A j \in 1..(i - 1) : ks[i] < ks[j]]

\* max(json_files, key=...): the first element no other key exceeds
MaxByKey(files, ks) ==
    files[CHOOSE i \in 1..Len(files) :
            /\ \A j \in 1..Len(files) : ks[j] <= ks[i]
            /\ \A j \in 1..(i - 1) : ks[j] < ks[i]]

\* find_sso_token_file on a directory nobody else touches meanwhile; order
\* is the order of the directory listing
find_sso_token_file(dirOk, c, order) ==
    IF ~dirOk THEN None
    ELSE IF order = <<>> THEN None
    ELSE MaxByKey(order, [i \in 1..Len(order) |-> c[order[i]].mtime])

\* str.replace('Z', '+00:00') on the zone suffix
ReplaceZ(suffix) == IF suffix = "Z" THEN "+00:00" ELSE suffix

\* datetime.fromisoformat: an aware value with its UTC offset in seconds, a
\* naive value, or ValueError (ok = FALSE)
fromisoformat(wall, suffix) ==
    CASE suffix = "+00:00" -> [ok |-> TRUE, aware |-> TRUE, wall |-> wall, off |-> 0]
      [] suffix = "+01:00" -> [ok |-> TRUE, aware |-> TRUE, wall |-> wall, off |-> 3600]
      [] suffix = "-05:00" -> [ok |-> TRUE, aware |-> TRUE, wall |-> wall, off |-> 0 - 18000]
      [] suffix = ""       -> [ok |-> TRUE, aware |-> FALSE, wall |-> wall, off |-> 0]
      [] OTHER             -> [ok |-> FALSE, aware |-> FALSE, wall |-> 0, off |-> 0]

\* datetime.now(expires_at.tzinfo): the wall clock of now in the zone of
\* expires_at, the local wall clock when expires_at is naive
datetime_now(nowUtc, dt, localOff) ==
    IF dt.aware
    THEN [ok |-> TRUE, aware |-> TRUE, wall |-> nowUtc + dt.off, off |-> dt.off]
    ELSE [ok |-> TRUE, aware |-> FALSE, wall |-> nowUtc + localOff, off |-> 0]

\* (expires_at - now).total_seconds()
total_seconds(a, b) ==
    IF a.aware THEN (a.wall - a.off) - (b.wall - b.off) ELSE a.wall - b.wall

\* (variant: the comparison the wrong way round)
ExpiresSoonReversed(time_until_expiry, threshold) == time_until_expiry > threshold

\* (variant: a token exactly at the threshold is renewed as well)
ExpiresSoonInclusive(time_until_expiry, threshold) == time_until_expiry <= threshold

\* the comparison of check_token_expiration
ExpiresSoon(time_until_expiry, threshold) == time_until_expiry < threshold

\* check_token_expiration once the token file is open: json.load, the
\* expiresAt test, the parse and the comparison; any exception answers True
ExpirationOf(content, nowUtc, localOff, threshold) ==
    IF ~content.json THEN TRUE
    ELSE IF ~content.has THEN TRUE
    ELSE LET expires_at == fromisoformat(content.wall, ReplaceZ(content.suffix))
         IN  IF ~expires_at.ok THEN TRUE
             ELSE ExpiresSoon(
                    total_seconds(expires_at,
                                  datetime_now(nowUtc, expires_at, localOff)),
                    threshold)

\* check_token_expiration as a function of what find_sso_token_file and open
\* give: no token file, a file that cannot be opened, or a content
check_token_expiration(token, nowUtc, localOff, threshold) ==
    IF ~token.found THEN TRUE
    ELSE IF ~token.readable THEN TRUE
    ELSE ExpirationOf(token.content, nowUtc, localOff, threshold)

\* (variant: the handler of main catches ValueError only)
CaughtValueErrorOnly(exc) == exc = "ValueError"

\* "except Exception" of main: every exception a cycle can raise
Caught(exc) == exc \in {"FileNotFoundError", "PermissionError", "ValueError"}

\* (variant: one minute after every cycle)
SleepAlwaysShort(raised) == ERROR_SLEEP

\* (variant: the sleep is longer than the lead time)
SleepTooLong(raised) ==
    IF raised THEN ERROR_SLEEP ELSE check_interval + renewal_threshold

\* the sleep that ends a cycle of main
SleepAfter(raised) == IF raised THEN ERROR_SLEEP ELSE check_interval

\* "if check_token_expiration(): perform_sso_login()"
InvokeLogin(isDue) == isDue

NoCheck == [at |-> 0]

\* history: check_token_expiration gave isDue for this token at rnow, and
\* main then calls perform_sso_login or not
Checked(token, isDue) ==
    IF InvokeLogin(isDue)
    THEN /\ unrenewed' = NoCheck
         /\ renewed' = IF unrenewed = NoCheck THEN renewed
                        ELSE [at |-> unrenewed.at, content |-> unrenewed.content,
                              by |-> rnow]
    ELSE /\ unrenewed' = IF isDue \/ unrenewed # NoCheck THEN unrenewed
                          ELSE [at |-> rnow, content |-> token.content]
         /\ UNCHANGED renewed

\* an exception leaves the try block of main
Raise(exc) ==
    rpc' = IF Caught(exc) THEN "except" ELSE "crashed"

\* main: a cycle starts; find_sso_token_file tests os.path.exists
R_Exists ==
    /\ rpc = "top"
    /\ cycle < MaxCycles
    /\ cycle' = cycle + 1
    /\ json_files' = <<>> /\ keys' = <<>> /\ token_file' = None
    /\ login' = "none"
    /\ IF ~dirExists
       THEN /\ cond' = "nodir"
            /\ trace' = <<"read", "evaluate">>
            /\ due' = "True"
            /\ Checked([found |-> FALSE], TRUE)
            /\ rpc' = IF InvokeLogin(TRUE) THEN "login" ELSE "sleep"
       ELSE /\ cond' = "none"
            /\ trace' = <<>>
            /\ due' = "unknown"
            /\ rpc' = "glob"
            /\ UNCHANGED <<unrenewed, renewed>>
    /\ slack' = 0
    /\ UNCHANGED <<rnow, dirExists, cache, ended, fsOps, check_interval,
                   renewal_threshold>>

\* find_sso_token_file: list(Path(SSO_CACHE_DIR).glob('*.json'))
R_Glob ==
    /\ rpc = "glob"
    /\ \E order \in Orders(glob(dirExists, cache)) :
         IF Len(order) = 0
         THEN /\ cond' = "nofile"
              /\ trace' = <<"read", "evaluate">>
              /\ due' = "True"
              /\ Checked([found |-> FALSE], TRUE)
              /\ rpc' = IF InvokeLogin(TRUE) THEN "login" ELSE "sleep"
              /\ UNCHANGED json_files
         ELSE /\ json_files' = order
              /\ rpc' = "stat"
              /\ UNCHANGED <<cond, trace, due, unrenewed, renewed>>
    /\ UNCHANGED <<rnow, dirExists, cache, keys, token_file, login, cycle,
                   ended, fsOps, check_interval, renewal_threshold, slack>>

\* find_sso_token_file: max() calls f.stat() on the next listed file
R_Stat ==
    /\ rpc = "stat"
    /\ LET f == json_files[Len(keys) + 1]
       IN  IF ~cache[f].present
           THEN /\ Raise("FileNotFoundError")
                /\ cond' = "vanished"
                /\ UNCHANGED <<keys, token_file, trace>>
           ELSE /\ keys' = Append(keys, cache[f].mtime)
                /\ IF Len(keys') = Len(json_files)
                   THEN /\ token_file' = MaxByKey(json_files, keys')
                        /\ trace' = <<"read">>
                        /\ rpc' = "open"
                   ELSE /\ rpc' = "stat"
                        /\ UNCHANGED <<token_file, trace>>
                /\ UNCHANGED cond
    /\ UNCHANGED <<rnow, dirExists, cache, json_files, due, login, cycle,
                   ended, fsOps>>
    /\ UNCHANGED <<check_interval, renewal_threshold>>
    /\ UNCHANGED <<slack, unrenewed, renewed>>

\* check_token_expiration: open and evaluate the token file
R_Open ==
    /\ rpc = "open"
    /\ LET token == IF cache[token_file].present
                    THEN [found |-> TRUE, readable |-> TRUE,
                          content |-> cache[token_file].content]
                    ELSE [found |-> TRUE, readable |-> FALSE]
           isDue == check_token_expiration(token, rnow, 0, renewal_threshold)
       IN  /\ due' = IF isDue THEN "True" ELSE "False"
           /\ Checked(token, isDue)
           /\ cond' = IF ~token.readable THEN "vanished"
                      ELSE IF ~token.content.json THEN "malformed"
                      ELSE IF ~token.content.has THEN "noexpiry"
                      ELSE "none"
           /\ trace' = Append(trace, "evaluate")
           /\ rpc' = IF InvokeLogin(isDue) THEN "login" ELSE "sleep"
    /\ UNCHANGED <<rnow, dirExists, cache, json_files, keys, token_file,
                   login, cycle, ended, fsOps, check_interval,
                   renewal_threshold, slack>>

\* the work of a cycle (listing the directory, reading the file) takes a
\* second of the clock
R_Elapse ==
    /\ rpc = "glob"
    /\ slack < MaxSlack
    /\ slack' = slack + 1
    /\ rnow' = rnow + 1
    /\ UNCHANGED <<rpc, dirExists, cache, json_files, keys, token_file, due,
                   login, cycle, trace, cond, ended, fsOps, check_interval,
                   renewal_threshold, unrenewed, renewed>>

\* outcomes of renewer.perform_sso_login: "mkdir" (os.makedirs raises),
\* "oserror" (the aws command cannot be started), "nonzero", "ok"
CliOutcomes == {"mkdir", "oserror", "nonzero", "ok"}

\* the value renewer.perform_sso_login returns for an outcome of the command
CliResult(outcome) == IF outcome = "ok" THEN "True" ELSE "False"

\* renewer.perform_sso_login: one run of "aws sso login"; every exception is
\* caught inside and answered with False
R_Login(outcome) ==
    /\ rpc = "login"
    /\ dirExists' = (dirExists \/ outcome # "mkdir")
    /\ cache' = IF outcome = "ok"
                THEN [cache EXCEPT ![TokenA] =
                        File(rnow, WithExpiry(rnow + NewTokenLifetime, "Z"))]
                ELSE cache
    /\ login' = CliResult(outcome)
    /\ trace' = Append(trace, "login")
    /\ rpc' = "sleep"
    /\ UNCHANGED <<rnow, json_files, keys, token_file, due, cycle, cond,
                   ended, fsOps>>
    /\ UNCHANGED <<check_interval, renewal_threshold>>
    /\ UNCHANGED <<slack, unrenewed, renewed>>

\* main: time.sleep(CHECK_INTERVAL) after a cycle that did not raise
R_Sleep ==
    /\ rpc = "sleep"
    /\ rnow' = rnow + SleepAfter(FALSE)
    /\ ended' = [raised |-> FALSE, at |-> rnow]
    /\ rpc' = "top"
    /\ UNCHANGED <<dirExists, cache, json_files, keys, token_file, due, login,
                   cycle, trace, cond, fsOps>>
    /\ UNCHANGED <<check_interval, renewal_threshold>>
    /\ UNCHANGED <<slack, unrenewed, renewed>>

\* main: the except branch logs and sleeps a minute
R_Except ==
    /\ rpc = "except"
    /\ rnow' = rnow + SleepAfter(TRUE)
    /\ ended' = [raised |-> TRUE, at |-> rnow]
    /\ rpc' = "top"
    /\ UNCHANGED <<dirExists, cache, json_files, keys, token_file, due, login,
                   cycle, trace, cond, fsOps>>
    /\ UNCHANGED <<check_interval, renewal_threshold>>
    /\ UNCHANGED <<slack, unrenewed, renewed>>

\* KeyboardInterrupt or a kill: not an Exception, so not caught by main
R_Stop ==
    /\ rpc \notin {"stopped", "crashed", "idle"}
    /\ rpc' = "stopped"
    /\ UNCHANGED <<rnow, dirExists, cache, json_files, keys, token_file, due,
                   login, cycle, trace, cond, ended, fsOps>>
    /\ UNCHANGED <<check_interval, renewal_threshold>>
    /\ UNCHANGED <<slack, unrenewed, renewed>>

\* the contents another login flow may leave in a cache file at time t
LoopContents(t) == { NoExpiry, WithExpiry(t + NewTokenLifetime, "Z") }

\* another process (a login flow) writes or replaces a cache file
EnvWrite(name, content) ==
    /\ rpc \notin {"stopped", "crashed", "idle"}
    /\ fsOps < MaxFsOps
    /\ dirExists
    /\ cache' = [cache EXCEPT ![name] = File(rnow, content)]
    /\ fsOps' = fsOps + 1
    /\ UNCHANGED <<rnow, rpc, dirExists, json_files, keys, token_file, due,
                   login, cycle, trace, cond, ended>>
    /\ UNCHANGED <<check_interval, renewal_threshold>>
    /\ UNCHANGED <<slack, unrenewed, renewed>>

\* another process removes a cache file
EnvDelete(name) ==
    /\ rpc \notin {"stopped", "crashed", "idle"}
    /\ fsOps < MaxFsOps
    /\ cache[name].present
    /\ cache' = [cache EXCEPT ![name] = Absent]
    /\ fsOps' = fsOps + 1
    /\ UNCHANGED <<rnow, rpc, dirExists, json_files, keys, token_file, due,
                   login, cycle, trace, cond, ended>>
    /\ UNCHANGED <<check_interval, renewal_threshold>>
    /\ UNCHANGED <<slack, unrenewed, renewed>>

NoFiles == [n \in CacheNames |-> Absent]

RenLocals ==
    /\ json_files = <<>> /\ keys = <<>> /\ token_file = None
    /\ due = "unknown" /\ login = "none"
    /\ cycle = 0 /\ trace = <<>> /\ cond = "none"
    /\ ended = [raised |-> FALSE, at |-> 0]
    /\ fsOps = 0
    /\ slack = 0
    /\ unrenewed = NoCheck
    /\ renewed = NoCheck

RenInit ==
    /\ rnow = RStart
    /\ rpc = "top"
    /\ check_interval = CHECK_INTERVAL
    /\ renewal_threshold = RENEWAL_THRESHOLD
    /\ dirExists \in BOOLEAN
    /\ \E c \in LoopContents(RStart) \cup {Malformed, WithExpiry(RStart + 10, "Z")},
          present \in BOOLEAN :
          cache = IF dirExists /\ present
                  THEN [NoFiles EXCEPT ![TokenA] = File(RStart, c)]
                  ELSE NoFiles
    /\ RenLocals

\* the renewer has not been started
\* the settings CHECK_INTERVAL and RENEWAL_THRESHOLD may be given: the
\* defaults, and intervals just below, at and above the default lead time
Settings ==
    { [interval |-> i, threshold |-> RENEWAL_THRESHOLD] :
        i \in { CHECK_INTERVAL, RENEWAL_THRESHOLD - 2, RENEWAL_THRESHOLD - 1,
                RENEWAL_THRESHOLD, 2 * RENEWAL_THRESHOLD } }

\* the seconds of validity the token in the cache has left when main starts
Lifetimes ==
    { RENEWAL_THRESHOLD, RENEWAL_THRESHOLD + 1, NewTokenLifetime,
      RENEWAL_THRESHOLD + CHECK_INTERVAL }

\* main alone with one token in the cache, under each of the settings
PollInit ==
    /\ rnow = RStart
    /\ rpc = "top"
    /\ \E c \in Settings :
          /\ check_interval = c.interval
          /\ renewal_threshold = c.threshold
    /\ dirExists = TRUE
    /\ \E l \in Lifetimes :
          cache = [NoFiles EXCEPT ![TokenA] = File(RStart, WithExpiry(RStart + l, "Z"))]
    /\ RenLocals

RenIdle ==
    /\ rnow = RStart
    /\ rpc = "idle"
    /\ check_interval = CHECK_INTERVAL
    /\ renewal_threshold = RENEWAL_THRESHOLD
    /\ dirExists = FALSE
    /\ cache = NoFiles
    /\ RenLocals

(***************************************************************************)
(* sso-authenticator/authenticator.py (Selenium),                          *)
(* sso-authenticator/authenticator_playwright.py (Playwright) and the      *)
(* command line login of the renewer: perform_sso_login.                   *)
(***************************************************************************)
INIT_RETRY_DELAY == 2

Strategies == {"cli", "selenium", "playwright"}

\* what get_sso_config finds in ~/.aws/config
ConfigStates == {"ok", "noprofile", "nosso"}

\* perform_sso_login raises: the call is over, nothing is returned
A_Raise ==
    /\ a_result' = "raised"
    /\ apc' = "returned"

\* renewer.perform_sso_login, called on its own
A_Cli(outcome) ==
    /\ strategy = "cli"
    /\ apc = "start"
    /\ flows' = flows + 1
    /\ failure' = IF outcome = "ok" THEN "none"
                  ELSE IF outcome = "nonzero" THEN "auth" ELSE "init"
    /\ a_result' = CliResult(outcome)
    /\ apc' = "returned"
    /\ UNCHANGED <<mainVars, unbound_uses>>
    /\ UNCHANGED <<strategy, MAX_RETRIES, haveCreds, configState, attempt,
                   inits, delays, browser, quits, pending>>

\* the raises at the top of perform_sso_login and in get_sso_config; the
\* variant overlooks a profile without sso_start_url or sso_region
ConfigMissingProfileOnly(creds_set, config) == ~creds_set \/ config = "noprofile"

\* SSO_USERNAME or SSO_PASSWORD unset, no profile section, or a profile
\* section without sso_start_url or sso_region
ConfigMissing(creds_set, config) == ~creds_set \/ config # "ok"

\* the browser variants: the credential test and get_sso_config
A_Enter ==
    /\ strategy \in {"selenium", "playwright"}
    /\ apc = "start"
    /\ IF ConfigMissing(haveCreds, configState)
       THEN /\ A_Raise
            /\ failure' = "config"
       ELSE /\ apc' = IF strategy = "selenium" THEN "init" ELSE "launch"
            /\ UNCHANGED <<a_result, failure>>
    /\ UNCHANGED <<mainVars, unbound_uses>>
    /\ UNCHANGED <<strategy, MAX_RETRIES, haveCreds, configState, attempt,
                   inits, flows, delays, browser, quits, pending>>

\* Selenium: one pass of "for attempt in range(MAX_RETRIES)"
A_InitBrowser(outcome) ==
    /\ strategy = "selenium"
    /\ apc = "init"
    /\ attempt < MAX_RETRIES
    /\ inits' = inits + 1
    /\ IF outcome = "ok"
       THEN /\ browser' = "open"
            /\ apc' = "flow"
            /\ UNCHANGED <<attempt, delays, a_result, failure>>
       ELSE IF attempt < MAX_RETRIES - 1
            THEN /\ delays' = Append(delays, INIT_RETRY_DELAY)
                 /\ attempt' = attempt + 1
                 /\ UNCHANGED <<apc, browser, a_result, failure>>
            ELSE /\ A_Raise
                 /\ failure' = "init"
                 /\ UNCHANGED <<attempt, delays, browser>>
    /\ UNCHANGED <<mainVars, unbound_uses>>
    /\ UNCHANGED <<strategy, MAX_RETRIES, haveCreds, configState, flows,
                   quits, pending>>

\* Selenium: range(MAX_RETRIES) is empty or used up without a break; the
\* name browser was never bound
A_InitExhausted ==
    /\ strategy = "selenium"
    /\ apc = "init"
    /\ attempt >= MAX_RETRIES
    /\ apc' = "flow"
    /\ UNCHANGED <<mainVars, unbound_uses>>
    /\ UNCHANGED <<strategy, MAX_RETRIES, haveCreds, configState, attempt,
                   inits, flows, delays, browser, quits, pending, a_result,
                   failure>>

\* Selenium: the login sequence inside the try block; "timeout" is a
\* TimeoutException, "error" any other exception; both are caught and
\* answered with False, as is the NameError for an unbound browser
A_Flow(outcome) ==
    /\ strategy = "selenium"
    /\ apc = "flow"
    /\ flows' = flows + 1
    /\ IF browser = "unbound"
       THEN /\ outcome = "error"
            /\ pending' = "False"
            /\ failure' = "init"
            /\ unbound_uses' = unbound_uses + 1
       ELSE /\ pending' = IF outcome = "success" THEN "True" ELSE "False"
            /\ failure' = IF outcome = "success" THEN "none" ELSE "auth"
            /\ UNCHANGED unbound_uses
    /\ apc' = "finally"
    /\ UNCHANGED mainVars
    /\ UNCHANGED <<strategy, MAX_RETRIES, haveCreds, configState, attempt,
                   inits, delays, browser, quits, a_result>>

\* Selenium: "finally: browser.quit()"; with an unbound browser the
\* NameError raised here replaces the pending return
A_Finally ==
    /\ strategy = "selenium"
    /\ apc = "finally"
    /\ IF browser = "unbound"
       THEN /\ A_Raise
            /\ unbound_uses' = unbound_uses + 1
            /\ UNCHANGED <<browser, quits>>
       ELSE /\ browser' = "closed"
            /\ quits' = quits + 1
            /\ a_result' = pending
            /\ apc' = "returned"
            /\ UNCHANGED unbound_uses
    /\ UNCHANGED mainVars
    /\ UNCHANGED <<strategy, MAX_RETRIES, haveCreds, configState, attempt,
                   inits, flows, delays, pending, failure>>

\* Playwright: firefox.launch, new_context and new_page, outside any try
A_Launch(outcome) ==
    /\ strategy = "playwright"
    /\ apc = "launch"
    /\ inits' = inits + 1
    /\ IF outcome = "ok"
       THEN /\ browser' = "open"
            /\ apc' = "flow"
            /\ UNCHANGED <<a_result, failure>>
       ELSE /\ browser' = IF outcome = "context_error" THEN "open" ELSE browser
            /\ A_Raise
            /\ failure' = "init"
    /\ UNCHANGED <<mainVars, unbound_uses>>
    /\ UNCHANGED <<strategy, MAX_RETRIES, haveCreds, configState, attempt,
                   flows, delays, quits, pending>>

\* Playwright: the login sequence; an exception is caught, a screenshot is
\* taken and False returned; if the screenshot itself raises, that exception
\* leaves the function once finally has closed the browser
A_PwFlow(outcome) ==
    /\ strategy = "playwright"
    /\ apc = "flow"
    /\ flows' = flows + 1
    /\ pending' = CASE outcome = "success" -> "True"
                    [] outcome = "error" -> "False"
                    [] OTHER -> "raised"
    /\ failure' = IF outcome = "success" THEN "none" ELSE "auth"
    /\ apc' = "finally"
    /\ UNCHANGED <<mainVars, unbound_uses>>
    /\ UNCHANGED <<strategy, MAX_RETRIES, haveCreds, configState, attempt,
                   inits, delays, browser, quits, a_result>>

\* Playwright: "finally: browser.close()"
A_PwFinally ==
    /\ strategy = "playwright"
    /\ apc = "finally"
    /\ browser' = "closed"
    /\ quits' = quits + 1
    /\ a_result' = pending
    /\ apc' = "returned"
    /\ UNCHANGED <<mainVars, unbound_uses>>
    /\ UNCHANGED <<strategy, MAX_RETRIES, haveCreds, configState, attempt,
                   inits, flows, delays, pending, failure>>

(***************************************************************************)
(* sso-authenticator/authenticator.py: extract_and_update_credentials.     *)
(* The environment file is a text: a sequence of characters, in which the  *)
(* three key prefixes, one other key prefix, one value character and the   *)
(* line terminator are characters of their own.                            *)
(***************************************************************************)
NL == "\n"
KeyAccess == "AWS_ACCESS_KEY_ID="
KeySecret == "AWS_SECRET_ACCESS_KEY="
KeyToken == "AWS_SESSION_TOKEN="
CredentialKeys == {KeyAccess, KeySecret, KeyToken}

\* index of the first line terminator of a text, 0 if there is none
FirstNL(text) ==
    IF \E i \in 1..Len(text) : text[i] = NL
    THEN CHOOSE i \in 1..Len(text) :
             text[i] = NL /\ \A j \in 1..(i - 1) : text[j] # NL
    ELSE 0

\* f.readlines(): the lines with their terminators; a last line that has
\* no terminator is returned as it is
RECURSIVE readlines(_)
readlines(text) ==
    IF text = <<>> THEN <<>>
    ELSE LET k == FirstNL(text)
         IN  IF k = 0 THEN <<text>>
             ELSE <<SubSeq(text, 1, k)>> \o readlines(SubSeq(text, k + 1, Len(text)))

\* line.startswith(key) for one of the three keys
StartsWithCredentialKey(line) == Len(line) >= 1 /\ line[1] \in CredentialKeys

\* the list comprehension that drops the existing credential lines
KeepLine(line) == ~StartsWithCredentialKey(line)

\* the three env_lines.append calls; no token line for an empty token
FreshLines(access, secret, token) ==
    << <<KeyAccess>> \o access \o <<NL>>, <<KeySecret>> \o secret \o <<NL>> >>
      \o (IF token # <<>> THEN << <<KeyToken>> \o token \o <<NL>> >> ELSE <<>>)

\* f.writelines(): the strings one after the other, nothing added
RECURSIVE writelines(_)
writelines(lines) ==
    IF lines = <<>> THEN <<>> ELSE Head(lines) \o writelines(Tail(lines))

\* the new text of the environment file
UpdatedEnv(text, access, secret, token) ==
    writelines(SelectSeq(readlines(text), KeepLine)
                 \o FreshLines(access, secret, token))

\* ENV_FILE on disk
EnvAbsent == [present |-> FALSE]
EnvFile(text) == [present |-> TRUE, text |-> text]

NoCreds == [access |-> <<>>, secret |-> <<>>, token |-> <<>>]

\* an exception inside extract_and_update_credentials: "except Exception"
\* answers with False
X_Fail ==
    /\ x_result' = "False"
    /\ xpc' = "returned"

\* the three "aws configure get" calls and the test for empty keys;
\* "error": check_output raised for one of the two keys, "empty": a key came
\* back empty, "notoken": the session token lookup failed and is taken as ""
X_Get(outcome) ==
    /\ xpc = "get"
    /\ IF outcome = "error"
       THEN /\ X_Fail
            /\ UNCHANGED creds
       ELSE /\ creds' = [access |-> IF outcome = "empty" THEN <<>> ELSE <<"y">>,
                         secret |-> <<"y">>,
                         token |-> IF outcome = "ok" THEN <<"y">> ELSE <<>>]
            /\ IF outcome = "empty"
               THEN X_Fail
               ELSE xpc' = "read" /\ UNCHANGED x_result
    /\ UNCHANGED <<env_file, env_prev, env_lines, proxy, exit_code, loginVars>>

\* os.path.exists, readlines, the filter and the appends
X_Read(outcome) ==
    /\ xpc = "read"
    /\ IF env_file.present /\ outcome = "error"
       THEN /\ X_Fail
            /\ UNCHANGED env_lines
       ELSE /\ outcome = "ok"
            /\ env_lines' = UpdatedEnv(IF env_file.present THEN env_file.text ELSE <<>>,
                                       creds.access, creds.secret, creds.token)
            /\ xpc' = "write"
            /\ UNCHANGED x_result
    /\ UNCHANGED <<env_file, env_prev, creds, proxy, exit_code, loginVars>>

\* an exception leaves the "with open(ENV_FILE, 'w')" block; the variant
\* notices only a failing open
WriteRaisesOnOpenOnly(outcome) == outcome = "open_error"

WriteRaises(outcome) == outcome # "ok"

\* open(ENV_FILE, 'w') truncates the file, writelines fills it; on
\* "write_error" only the first k characters reach the file
X_Write(outcome, k) ==
    /\ xpc = "write"
    /\ CASE outcome = "open_error" -> k = 0 /\ UNCHANGED env_file
         [] outcome = "write_error" ->
                /\ k < Len(env_lines)
                /\ env_file' = EnvFile(SubSeq(env_lines, 1, k))
         [] OTHER ->
                /\ k = Len(env_lines)
                /\ env_file' = EnvFile(env_lines)
    /\ IF WriteRaises(outcome)
       THEN X_Fail
       ELSE xpc' = "restart" /\ UNCHANGED x_result
    /\ UNCHANGED <<env_prev, creds, env_lines, proxy, exit_code, loginVars>>

\* subprocess.run(..., check=False) inside its own try: neither a non-zero
\* exit nor an exception changes the result
X_Restart(outcome) ==
    /\ xpc = "restart"
    /\ proxy' = outcome
    /\ x_result' = "True"
    /\ xpc' = "returned"
    /\ UNCHANGED <<env_file, env_prev, creds, env_lines, exit_code, loginVars>>

\* the variant reports success whatever was returned
ExitCodeAlwaysZero(returned) == "0"

\* main: 0 for True, 1 for False and for an exception
ExitCode(returned) == IF returned = "True" THEN "0" ELSE "1"

\* main once perform_sso_login is over: the Selenium script goes on to
\* extract_and_update_credentials after True, the Playwright script returns
M_Login ==
    /\ strategy \in {"selenium", "playwright"}
    /\ apc = "returned"
    /\ xpc = "idle"
    /\ exit_code = "none"
    /\ IF a_result = "True" /\ strategy = "selenium"
       THEN xpc' = "get" /\ UNCHANGED exit_code
       ELSE exit_code' = ExitCode(a_result) /\ UNCHANGED xpc
    /\ UNCHANGED <<env_file, env_prev, creds, env_lines, x_result, proxy, loginVars>>

\* main once extract_and_update_credentials is over
M_Extracted ==
    /\ xpc = "returned"
    /\ exit_code = "none"
    /\ exit_code' = ExitCode(x_result)
    /\ UNCHANGED <<xpc, env_file, env_prev, creds, env_lines, x_result, proxy,
                   loginVars>>

\* the environment files the script starts with
EnvFiles ==
    { EnvAbsent, EnvFile(<<>>),
      EnvFile(<<"FOO=", "x", NL>>),
      EnvFile(<<"FOO=", "x">>),
      EnvFile(<<KeyAccess, "x", NL, "FOO=", "x", NL, KeyToken, "x", NL>>) }

MainLocals ==
    /\ xpc = "idle" /\ creds = NoCreds /\ env_lines = <<>>
    /\ x_result = "none" /\ proxy = "none" /\ exit_code = "none"

AuthLocals ==
    /\ attempt = 0 /\ inits = 0 /\ flows = 0 /\ delays = <<>>
    /\ browser = "unbound" /\ quits = 0
    /\ pending = "none" /\ a_result = "none" /\ failure = "none"
    /\ unbound_uses = 0

\* the renewer has no retry setting: its login is a single attempt
AuthInit ==
    /\ strategy \in Strategies
    /\ MAX_RETRIES \in 0..MaxRetries
    /\ strategy = "cli" => MAX_RETRIES = 1
    /\ haveCreds \in BOOLEAN
    /\ configState \in ConfigStates
    /\ apc = "start"
    /\ AuthLocals
    /\ env_file \in EnvFiles
    /\ strategy # "selenium" => env_file = EnvAbsent
    /\ env_prev = env_file
    /\ MainLocals

\* no login is in progress
AuthIdle ==
    /\ strategy = "none"
    /\ MAX_RETRIES = 0
    /\ haveCreds = FALSE
    /\ configState = "ok"
    /\ apc = "idle"
    /\ AuthLocals
    /\ env_file = EnvAbsent
    /\ env_prev = env_file
    /\ MainLocals

(***************************************************************************)
(* find_sso_token_file and check_token_expiration as functions of their    *)
(* inputs.                                                                 *)
(***************************************************************************)
Unset == [set |-> FALSE]
Result(v) == [set |-> TRUE, val |-> v]

FnIdle == arg = [kind |-> "none"] /\ res = Unset

\* the cache directories find_sso_token_file is applied to
FindArgs ==
    { [kind |-> "find", dirExists |-> d, cache |-> c] :
        d \in BOOLEAN,
        c \in [CacheNames -> {Absent} \cup { File(m, NoExpiry) : m \in 1..MaxMtime }] }

FindInit == arg \in { a \in FindArgs : ~a.dirExists => a.cache = NoFiles } /\ res = Unset

\* one call of find_sso_token_file; the directory is listed in some order
FindApply(order) ==
    /\ arg.kind = "find"
    /\ ~res.set
    /\ order \in Orders(glob(arg.dirExists, arg.cache))
    /\ res' = Result(find_sso_token_file(arg.dirExists, arg.cache, order))
    /\ UNCHANGED arg

\* the zone suffixes an expiresAt value is written with; "UTC" is what
\* older CLI versions wrote and fromisoformat does not accept
Suffixes == {"Z", "+01:00", "-05:00", "", "UTC"}
ZoneOffsets == {0, 3600, 0 - 18000}
ExpiryDeltas == {0 - 10, 10, 3599, 3600, 3601, 7200}
Thresholds == {0, RENEWAL_THRESHOLD, 7200}

ExpiryTokens(t) ==
    { [found |-> FALSE], [found |-> TRUE, readable |-> FALSE] }
      \cup { [found |-> TRUE, readable |-> TRUE, content |-> c] :
               c \in {Malformed, NoExpiry}
                      \cup { WithExpiry(t + d + o, sfx) :
                               d \in ExpiryDeltas, o \in ZoneOffsets, sfx \in Suffixes } }

ExpiryArgs ==
    { [kind |-> "expiry", token |-> tok, now |-> RStart, localOff |-> lo, threshold |-> th] :
        tok \in ExpiryTokens(RStart), lo \in ZoneOffsets, th \in Thresholds }

ExpiryInit == arg \in ExpiryArgs /\ res = Unset

\* one call of check_token_expiration
ExpiryApply ==
    /\ arg.kind = "expiry"
    /\ ~res.set
    /\ res' = Result(check_token_expiration(arg.token, arg.now, arg.localOff,
                                            arg.threshold))
    /\ UNCHANGED arg

\* the characters of an environment file
EnvAlphabet == CredentialKeys \cup {"FOO=", "x", NL}

RECURSIVE TextsUpTo(_)
TextsUpTo(n) ==
    IF n = 0 THEN {<<>>}
    ELSE LET shorter == TextsUpTo(n - 1)
         IN  shorter \cup { Append(t, c) : t \in { u \in shorter : Len(u) = n - 1 },
                                            c \in EnvAlphabet }

\* what "aws configure get" printed, stripped
Values == {<<"x">>, <<"y">>}

ExportArgs ==
    { [kind |-> "export", text |-> t, access |-> a, secret |-> <<"y">>, token |-> k] :
        t \in TextsUpTo(MaxFileLen), a \in Values, k \in {<<>>, <<"y">>} }

ExportInit == arg \in ExportArgs /\ res = Unset

\* one rewrite of the environment file
ExportApply ==
    /\ arg.kind = "export"
    /\ ~res.set
    /\ res' = Result(UpdatedEnv(arg.text, arg.access, arg.secret, arg.token))
    /\ UNCHANGED arg

(***************************************************************************)
(* The specifications, one per script or function.                         *)
(***************************************************************************)
\* what a step of one script leaves alone
monOthers == <<renVars, authVars, fnVars>>
renOthers == <<monVars, authVars, fnVars>>
authOthers == <<monVars, renVars, fnVars>>
fnOthers == <<monVars, renVars, authVars>>

MonNext ==
    \/ \E n \in FsNodes, gap \in Gaps : on_modified(n, gap) /\ UNCHANGED monOthers
    \/ \E outcome \in RestartOutcomes :
          restart_returns(0, outcome) /\ UNCHANGED monOthers

MonSpecInit == MonInit /\ RenIdle /\ AuthIdle /\ FnIdle

MonSpec == MonSpecInit /\ [][MonNext]_vars

\* the restart command ends and the handler returns
HandlerProgress ==
    \E outcome \in RestartOutcomes : restart_returns(0, outcome) /\ UNCHANGED monOthers

MonFairSpec == MonSpec /\ WF_vars(HandlerProgress)

\* the events of the life cycle: a credentials file and the cache directory
WatchNodes ==
    { n \in FsNodes : n.src_path = CREDENTIAL_FILE \/ n.src_path = SSO_CACHE_DIR }

WatchNext ==
    \/ \E n \in WatchNodes, gap \in {1, cooldown_period} :
          on_modified(n, gap) /\ UNCHANGED monOthers
    \/ \E duration \in Durations, outcome \in RestartOutcomes :
          restart_returns(duration, outcome) /\ UNCHANGED monOthers
    \/ S_EnterLoop /\ UNCHANGED monOthers
    \/ S_Interrupt /\ UNCHANGED monOthers
    \/ S_Join /\ UNCHANGED monOthers

WatchSpecInit == WatchInit /\ RenIdle /\ AuthIdle /\ FnIdle

WatchSpec == WatchSpecInit /\ [][WatchNext]_vars

RenNext ==
    \/ R_Exists /\ UNCHANGED renOthers
    \/ R_Glob /\ UNCHANGED renOthers
    \/ R_Stat /\ UNCHANGED renOthers
    \/ R_Open /\ UNCHANGED renOthers
    \/ \E outcome \in CliOutcomes : R_Login(outcome) /\ UNCHANGED renOthers
    \/ R_Sleep /\ UNCHANGED renOthers
    \/ R_Except /\ UNCHANGED renOthers
    \/ R_Stop /\ UNCHANGED renOthers
    \/ \E name \in {TokenA, TokenB}, content \in LoopContents(rnow) :
          EnvWrite(name, content) /\ UNCHANGED renOthers
    \/ \E name \in {TokenA, TokenB} : EnvDelete(name) /\ UNCHANGED renOthers

RenSpecInit == RenInit /\ MonIdle /\ AuthIdle /\ FnIdle

RenSpec == RenSpecInit /\ [][RenNext]_vars

\* the steps of renewer.main itself: the process keeps running
RenProgress ==
    /\ R_Exists \/ R_Glob \/ R_Stat \/ R_Open \/ R_Sleep \/ R_Except
         \/ \E outcome \in CliOutcomes : R_Login(outcome)
    /\ UNCHANGED renOthers

RenFairSpec == RenSpec /\ WF_vars(RenProgress)

PollNext ==
    \/ R_Exists /\ UNCHANGED renOthers
    \/ R_Glob /\ UNCHANGED renOthers
    \/ R_Elapse /\ UNCHANGED renOthers
    \/ R_Stat /\ UNCHANGED renOthers
    \/ R_Open /\ UNCHANGED renOthers
    \/ \E outcome \in CliOutcomes : R_Login(outcome) /\ UNCHANGED renOthers
    \/ R_Sleep /\ UNCHANGED renOthers

PollSpecInit == PollInit /\ MonIdle /\ AuthIdle /\ FnIdle

PollSpec == PollSpecInit /\ [][PollNext]_vars

AuthNext ==
    \/ \E outcome \in CliOutcomes : A_Cli(outcome) /\ UNCHANGED authOthers
    \/ A_Enter /\ UNCHANGED authOthers
    \/ \E outcome \in {"ok", "WebDriverException"} :
          A_InitBrowser(outcome) /\ UNCHANGED authOthers
    \/ A_InitExhausted /\ UNCHANGED authOthers
    \/ \E outcome \in {"success", "timeout", "error"} :
          A_Flow(outcome) /\ UNCHANGED authOthers
    \/ A_Finally /\ UNCHANGED authOthers
    \/ \E outcome \in {"ok", "launch_error", "context_error"} :
          A_Launch(outcome) /\ UNCHANGED authOthers
    \/ \E outcome \in {"success", "error", "screenshot_error"} :
          A_PwFlow(outcome) /\ UNCHANGED authOthers
    \/ A_PwFinally /\ UNCHANGED authOthers
    \/ M_Login /\ UNCHANGED authOthers
    \/ \E outcome \in {"error", "empty", "notoken", "ok"} :
          X_Get(outcome) /\ UNCHANGED authOthers
    \/ \E outcome \in {"ok", "error"} : X_Read(outcome) /\ UNCHANGED authOthers
    \/ \E outcome \in {"open_error", "write_error", "ok"}, k \in 0..Len(env_lines) :
          X_Write(outcome, k) /\ UNCHANGED authOthers
    \/ \E outcome \in RestartOutcomes : X_Restart(outcome) /\ UNCHANGED authOthers
    \/ M_Extracted /\ UNCHANGED authOthers

AuthSpecInit == AuthInit /\ MonIdle /\ RenIdle /\ FnIdle

AuthSpec == AuthSpecInit /\ [][AuthNext]_vars

FindNext ==
    \E order \in UNION { Orders(S) : S \in SUBSET CacheNames } :
        FindApply(order) /\ UNCHANGED fnOthers

FindSpecInit == FindInit /\ MonIdle /\ RenIdle /\ AuthIdle

FindSpec == FindSpecInit /\ [][FindNext]_vars

ExpiryNext == ExpiryApply /\ UNCHANGED fnOthers

ExpirySpecInit == ExpiryInit /\ MonIdle /\ RenIdle /\ AuthIdle

ExpirySpec == ExpirySpecInit /\ [][ExpiryNext]_vars

ExportNext == ExportApply /\ UNCHANGED fnOthers

ExportSpecInit == ExportInit /\ MonIdle /\ RenIdle /\ AuthIdle

ExportSpec == ExportSpecInit /\ [][ExportNext]_vars

(***************************************************************************)
(* Properties of the credential monitor.                                   *)
(***************************************************************************)
Signals == { i \in 1..Len(log) : log[i].signal }

\* the artefacts the watcher is meant to react to
IsWatchedArtefact(e) ==
    /\ ~e.is_directory
    /\ \/ e.src_path = CREDENTIAL_FILE
       \/ e.src_path = CONFIG_FILE
       \/ IsUnder(e.src_path, SSO_CACHE_DIR)

\* C1: debounce, suppression. An event that arrives less than
\* cooldown_period after the last accepted event triggers no restart; any
\* two restarts are at least cooldown_period apart; and two events on the
\* same watched path one second apart, delivered to a fresh handler, give
\* exactly one restart.
C1_Suppression ==
    /\ \A j \in 1..Len(log) :
          log[j].time - log[j].before < cooldown_period => ~log[j].signal
    /\ \A i \in Signals, j \in Signals :
          i < j => log[j].time - log[i].time >= cooldown_period
    /\ ( /\ Len(log) >= 2
         /\ IsWatchedArtefact(log[1])
         /\ log[2].src_path = log[1].src_path
         /\ ~log[2].is_directory
         /\ log[2].time - log[1].time = 1 )
       => (log[1].signal /\ ~log[2].signal)

\* a restart, a suppressed event on the same path one second later, and a
\* second restart after the cooldown
C1_Witness ==
    /\ Len(log) = 3
    /\ log[1].signal /\ log[1].src_path = CREDENTIAL_FILE
    /\ log[2].src_path = CREDENTIAL_FILE /\ log[2].time = log[1].time + 1
    /\ ~log[2].signal
    /\ log[3].signal /\ log[3].time = log[1].time + cooldown_period

\* C2: debounce, acceptance. A non-directory event on the credentials file,
\* the config file or below the SSO cache directory that arrives at least
\* cooldown_period after the most recent restart itself causes a restart,
\* whatever directory or unrelated events came in between.
C2_Acceptance ==
    \A j \in 1..Len(log) :
        ( /\ IsWatchedArtefact(log[j])
          /\ \A i \in Signals :
                i < j => log[j].time - log[i].time >= cooldown_period )
        => log[j].signal

\* C3: an event that causes no restart (a directory event, an unrelated
\* path, an event inside the cooldown) leaves last_event_time unchanged.
C3_IgnoredEventsKeepState ==
    \A j \in 1..Len(log) : ~log[j].signal => log[j].after = log[j].before

\* C4: a restart is caused only by a non-directory event whose path is the
\* credentials file, the config file, or lies in the SSO cache directory.
C4_OnlyCredentialPathsSignal ==
    \A j \in Signals : IsWatchedArtefact(log[j])

\* an unrelated file next to the credentials file is modified outside any
\* cooldown and causes no restart; a nested cache file does
C4_Witness ==
    /\ Len(log) >= 2
    /\ log[1].src_path = join(AWS_DIR, <<"x">>)
    /\ ~log[1].cooldown /\ ~log[1].signal
    /\ \E j \in Signals : log[j].src_path = join(SSO_CACHE_DIR, <<"d", Sep, "t">>)

\* C14: each signal starts the restart command exactly once; a restart
\* that fails, by a non-zero exit or because the command cannot be started,
\* is not retried, does not leave the event handler as an exception, leaves
\* the debounce state as the accepted event set it, and later events are
\* still handled.
C14_RestartContained ==
    /\ restarts = Cardinality(Signals)
    /\ \A j \in Signals :
          log[j].restart \in {"failed", "oserror"} =>
              /\ observer = "running"
              /\ log[j].after = log[j].time
              /\ last_event_time >= log[j].time

\* C15: every modification of a watched credential artefact is eventually
\* followed by a restart that begins at or after that modification, the last
\* modification of a burst included.
C15_Propagation ==
    \A k \in 1..MaxEvents :
        [](( /\ Len(log) >= k
             /\ IsWatchedArtefact(log[k]) )
           => <>(\E i \in k..Len(log) :
                    log[i].signal /\ log[i].time >= log[k].time))

\* C15 as the code has it: a modification of a watched credential artefact
\* that is handled at least cooldown_period after last_event_time starts a
\* restart in that very call of on_modified, at the time of the call; one
\* handled earlier starts none, and the handler keeps nothing pending.
C15_AcceptedPropagation ==
    \A k \in 1..Len(log) :
        IsWatchedArtefact(log[k]) =>
            /\ log[k].time - log[k].before >= cooldown_period =>
                   /\ log[k].signal
                   /\ log[k].restart # "none"
                   /\ log[k].after = log[k].time
            /\ log[k].time - log[k].before < cooldown_period =>
                   /\ ~log[k].signal
                   /\ log[k].restart = "none"
                   /\ (k = Len(log) => handler = "idle" /\ running = 0)

\* a burst of two: the credentials file starts a restart, the token cache
\* file written one second later starts none, and the handler is idle
C15_Witness ==
    /\ Len(log) = 2
    /\ log[1].src_path = CREDENTIAL_FILE /\ log[1].signal
    /\ log[1].restart = "ok"
    /\ log[2].src_path = join(SSO_CACHE_DIR, <<"t">>)
    /\ log[2].time = log[1].time + 1
    /\ ~log[2].signal
    /\ handler = "idle"

\* C16: when start_monitoring is ended by a stop signal, the observer has
\* been stopped and joined before the process exits, on every path.
C16_CleanShutdown ==
    mpc = "exited" => stop_called /\ joined

\* C18: at most one restart command of the watcher is running at any time,
\* also when a restart lasts longer than the cooldown.
C18_SerializedRestarts ==
    /\ running <= 1
    /\ Cardinality({ i \in 1..Len(log) : log[i].restart = "running" }) <= 1

\* the first restart lasted longer than the cooldown; the event that waited
\* for it is handled afterwards and starts the second restart
C18_Witness ==
    /\ Len(log) = 2
    /\ log[1].signal /\ log[1].restart = "ok"
    /\ log[2].signal /\ log[2].restart = "running"
    /\ log[2].time = log[1].time + (cooldown_period + 1) + 1
    /\ running = 1

(***************************************************************************)
(* Properties of the credential renewer.                                   *)
(***************************************************************************)
\* the UTC offset a zone suffix denotes; a value without suffix is local time
ZoneOf(suffix, localOff) ==
    CASE suffix = "Z" -> 0
      [] suffix = "+01:00" -> 3600
      [] suffix = "-05:00" -> 0 - 18000
      [] OTHER -> localOff

HasParseableExpiry(tok) ==
    /\ tok.found /\ tok.readable
    /\ tok.content.json /\ tok.content.has
    /\ tok.content.suffix # "UTC"

\* seconds from now to the instant expiresAt denotes
Remaining(a) ==
    a.token.content.wall - ZoneOf(a.token.content.suffix, a.localOff) - a.now

\* C5: check_token_expiration answers due without a token file, due without
\* a parseable expiry, and otherwise due exactly if expiresAt - now is
\* strictly below the threshold: an expired token is due, now + 10 s is due
\* with threshold 3600, now + 7200 s is not.
C5_ExpiryEvaluation ==
    res.set =>
       /\ ~HasParseableExpiry(arg.token) => res.val = TRUE
       /\ HasParseableExpiry(arg.token) =>
            /\ res.val = (Remaining(arg) < arg.threshold)
            /\ Remaining(arg) < 0 => res.val = TRUE
            /\ (Remaining(arg) = 10 /\ arg.threshold = 3600) => res.val = TRUE
            /\ (Remaining(arg) = 7200 /\ arg.threshold = 3600) => res.val = FALSE

\* a token that expires exactly RENEWAL_THRESHOLD from now, written with a
\* zone offset, is not due
C5_Witness ==
    /\ res.set
    /\ HasParseableExpiry(arg.token)
    /\ arg.token.content.suffix = "+01:00"
    /\ arg.threshold = RENEWAL_THRESHOLD
    /\ Remaining(arg) = RENEWAL_THRESHOLD
    /\ res.val = FALSE

\* C17: for one token and one clock reading, a renewal that is due with
\* lead time L is due with every lead time L2 >= L.
C17_LeadTimeMonotone ==
    (arg.kind = "expiry" /\ res.set /\ res.val = TRUE) =>
        \A L2 \in Thresholds :
            L2 >= arg.threshold =>
                check_token_expiration(arg.token, arg.now, arg.localOff, L2) = TRUE

\* a token with 3599 s left is due with a lead time of 3600 s, and is not
\* due with none
C17_Witness ==
    /\ res.set /\ res.val = TRUE
    /\ HasParseableExpiry(arg.token)
    /\ Remaining(arg) = 3599
    /\ arg.threshold = RENEWAL_THRESHOLD
    /\ check_token_expiration(arg.token, arg.now, arg.localOff, 0) = FALSE

\* C6: a cycle that raises ends in the except branch of main, which sleeps
\* ERROR_SLEEP and starts the next cycle; the loop ends by a stop signal
\* only.
C6_LoopSurvives ==
    /\ [](rpc # "crashed")
    /\ [][(rpc = "except" /\ rpc' # "except")
            => \/ rpc' = "stopped"
               \/ rpc' = "top" /\ rnow' = rnow + ERROR_SLEEP /\ cycle' = cycle]_vars
    /\ \A k \in 1..(MaxCycles - 1) :
          (rpc = "except" /\ cycle = k) ~> (rpc = "stopped" \/ cycle = k + 1)

\* the first cycle raised, and a minute later the second cycle is under way
C6_Witness ==
    /\ cycle = 2
    /\ ended.raised
    /\ rnow = RStart + ERROR_SLEEP
    /\ rpc = "open"

TransientConds == {"nodir", "nofile", "vanished", "noexpiry"}

\* C8: a missing cache directory, a missing or vanished token file or a
\* missing expiry field never reaches the exception handler of main, and the
\* cycle in which it occurs invokes the login.
C8_TransientNeverError ==
    cond \in TransientConds =>
       /\ rpc \notin {"except", "crashed"}
       /\ rpc = "sleep" => login # "none"

\* C9: a cycle reads the latest token, evaluates, then logs in; the login
\* runs once if the evaluation is due and not otherwise; after a cycle that
\* did not raise the next one starts CHECK_INTERVAL later.
C9_CycleProtocol ==
    /\ trace \in { <<>>, <<"read">>, <<"read", "evaluate">>,
                   <<"read", "evaluate", "login">> }
    /\ (due # "unknown") <=> (Len(trace) >= 2)
    /\ (login # "none") <=> (Len(trace) = 3)
    /\ rpc = "login" => (due = "True" /\ login = "none")
    /\ rpc = "sleep" => ((due = "True") <=> (login # "none"))
    /\ rpc = "sleep" => due \in {"True", "False"}
    /\ (rpc = "top" /\ cycle > 0 /\ ~ended.raised)
         => rnow = ended.at + CHECK_INTERVAL

\* neither of two cycles raised; the second found the token due, its login
\* failed, and the third cycle is to start 2 * CHECK_INTERVAL after the first
C9_Witness ==
    /\ rpc = "top"
    /\ cycle = 2
    /\ ~ended.raised
    /\ due = "True" /\ login = "False"
    /\ rnow = RStart + 2 * CHECK_INTERVAL
    /\ cache[TokenA].present
    /\ cache[TokenA].mtime = RStart

\* the *.json entries of the directory itself
JsonEntries(a) ==
    { n \in CacheNames :
        /\ a.cache[n].present
        /\ \A i \in 1..Len(n) : n[i] # Sep
        /\ Len(n) > 2 /\ n[Len(n) - 1] = "." /\ n[Len(n)] = "j" }

\* C10: find_sso_token_file returns a *.json entry of the directory whose
\* modification time is the maximum over all of them, and None when the
\* directory is absent or has no such entry.
C10_TokenSelection ==
    res.set =>
       IF ~arg.dirExists \/ JsonEntries(arg) = {}
       THEN res.val = None
       ELSE /\ res.val \in JsonEntries(arg)
            /\ \A n \in JsonEntries(arg) :
                  arg.cache[n].mtime <= arg.cache[res.val].mtime

\* two tokens tie, a newer file with another extension and a newer nested
\* file are passed over
C10_Witness ==
    /\ res.set
    /\ res.val = TokenB
    /\ arg.cache[TokenA].present /\ arg.cache[TokenA].mtime = 1
    /\ arg.cache[TokenB].mtime = 1
    /\ \A n \in CacheNames \ {TokenA, TokenB} :
          arg.cache[n].present /\ arg.cache[n].mtime = 2

\* the instant the expiresAt of a checked token denotes (the renewer runs
\* with a local zone offset of 0)
ExpiryInstant(c) == c.content.wall - ZoneOf(c.content.suffix, 0)

\* a token found not due has not expired while no login was invoked, and
\* the login invoked for it came at a check strictly before its expiresAt
RenewedInTime ==
    /\ unrenewed # NoCheck => rnow < ExpiryInstant(unrenewed)
    /\ renewed # NoCheck => renewed.by < ExpiryInstant(renewed)

\* C21: with CHECK_INTERVAL <= RENEWAL_THRESHOLD and no cycle raising, a
\* token found not due at a check does not expire before the loop has
\* invoked a login at a later check, strictly before its expiresAt.
C21_ProactiveRenewal ==
    check_interval <= renewal_threshold => RenewedInTime

\* C21 with a margin: the same, when CHECK_INTERVAL plus the time the work
\* of a cycle takes is strictly less than RENEWAL_THRESHOLD.
C21_RenewalWithMargin ==
    check_interval + MaxSlack < renewal_threshold => RenewedInTime

\* a token with exactly the lead time left is not due; the next check comes
\* later than CHECK_INTERVAL after it and still before the expiry, invokes
\* the login, and the expiry has passed since
C21_Witness ==
    /\ check_interval + MaxSlack < renewal_threshold
    /\ renewed # NoCheck
    /\ renewed.at + renewal_threshold = ExpiryInstant(renewed)
    /\ renewed.by > renewed.at + check_interval
    /\ renewed.by < ExpiryInstant(renewed)
    /\ rnow >= ExpiryInstant(renewed)

(***************************************************************************)
(* Properties of perform_sso_login.                                        *)
(***************************************************************************)
\* C7: whichever strategy runs, a login that fails for another reason than
\* the configuration has been tried the configured maximum number of times,
\* with a fixed delay between the tries, and is reported by the return value
\* False; it never raises out of perform_sso_login.
C7_BoundedRetry ==
    (apc = "returned" /\ failure \in {"init", "auth"} /\ MAX_RETRIES >= 1) =>
       /\ a_result = "False"
       /\ (IF failure = "init" /\ strategy # "cli" THEN inits ELSE flows)
             = MAX_RETRIES
       /\ Len(delays) = MAX_RETRIES - 1
       /\ \A i \in 1..Len(delays) : delays[i] = INIT_RETRY_DELAY

(***************************************************************************)
(* Properties of the credential export.                                    *)
(***************************************************************************)
\* the lines of a text as a reader of the file sees them: the pieces
\* between the line terminators, without the terminators
RECURSIVE splitlines(_)
splitlines(text) ==
    IF text = <<>> THEN <<>>
    ELSE LET k == FirstNL(text)
         IN  IF k = 0 THEN <<text>>
             ELSE <<SubSeq(text, 1, k - 1)>> \o splitlines(SubSeq(text, k + 1, Len(text)))

\* a line that sets the given key
IsLineFor(key, line) == Len(line) >= 1 /\ line[1] = key

IsOtherLine(line) == \A key \in CredentialKeys : ~IsLineFor(key, line)

\* the lines the update is to add
FreshValues(a) ==
    << <<KeyAccess>> \o a.access, <<KeySecret>> \o a.secret >>
      \o (IF a.token # <<>> THEN << <<KeyToken>> \o a.token >> ELSE <<>>)

\* C11: after a successful update the environment file consists of the
\* previous lines that are not for one of the three keys, in their order,
\* followed by the fresh values; each key has at most one line, and the
\* same update applied again leaves the file as it is.
C11_ExportContent ==
    (arg.kind = "export" /\ res.set) =>
        LET after == splitlines(res.val)
        IN  /\ after = SelectSeq(splitlines(arg.text), IsOtherLine) \o FreshValues(arg)
            /\ \A key \in CredentialKeys :
                   Cardinality({ i \in 1..Len(after) : IsLineFor(key, after[i]) }) <= 1
            /\ UpdatedEnv(res.val, arg.access, arg.secret, arg.token) = res.val

\* the environment file holds neither what it held at the start nor the
\* complete text the update assembled
IsPartial == env_file # env_prev /\ env_file # EnvFile(env_lines)

\* C12: the update is all-or-nothing for its caller: it reports success
\* only with the complete new text in the file, and whenever a failing step
\* leaves the file in between, the call returns False and main exits with 1.
C12_AllOrNothing ==
    strategy = "selenium" =>
        /\ x_result = "True" => env_file = EnvFile(env_lines)
        /\ IsPartial => x_result = "False" /\ exit_code # "0"
        /\ (x_result = "False" /\ exit_code # "none") => exit_code = "1"

\* a write that broke off after the first of the new lines, reported
C12_Witness ==
    /\ strategy = "selenium"
    /\ IsPartial
    /\ env_prev = EnvFile(<<"FOO=", "x", NL>>)
    /\ env_file.text = <<"FOO=", "x", NL, KeyAccess, "y", NL>>
    /\ x_result = "False"
    /\ exit_code = "1"

(***************************************************************************)
(* Properties of the authenticator scripts.                                *)
(***************************************************************************)
\* C13: with the login identity, the profile section, sso_start_url or
\* sso_region absent, perform_sso_login raises before any browser is
\* started, any page visited or any retry made, nothing else runs, and the
\* script ends with exit code 1.
C13_ConfigFailureAborts ==
    (/\ strategy \in {"selenium", "playwright"}
     /\ ~haveCreds \/ configState \in {"noprofile", "nosso"}
     /\ apc # "start") =>
        /\ a_result = "raised" /\ failure = "config"
        /\ inits = 0 /\ flows = 0 /\ delays = <<>>
        /\ browser = "unbound" /\ quits = 0 /\ unbound_uses = 0
        /\ xpc = "idle"
        /\ exit_code \in {"none", "1"}
        /\ exit_code = "none" => ENABLED M_Login

\* a profile without sso_region, three attempts configured: exit code 1
C13_Witness ==
    /\ strategy = "selenium"
    /\ haveCreds /\ configState = "nosso"
    /\ MAX_RETRIES = MaxRetries
    /\ exit_code = "1"

\* C19: main returns 0 or 1 and never raises; 0 only after a successful
\* browser login and, in the Selenium script, after both keys were extracted
\* non-empty and the environment file rewritten; the extraction never runs
\* after a failed login; the outcome of the proxy restart does not change
\* the result.
C19_Outcome ==
    strategy \in {"selenium", "playwright"} =>
        /\ exit_code \in {"none", "0", "1"}
        /\ (apc = "returned" /\ exit_code = "none") =>
               ENABLED (M_Login \/ M_Extracted
                          \/ (\E o \in {"error", "empty", "notoken", "ok"} : X_Get(o))
                          \/ (\E o \in {"ok", "error"} : X_Read(o))
                          \/ (\E o \in {"open_error", "write_error", "ok"},
                                 k \in 0..Len(env_lines) : X_Write(o, k))
                          \/ (\E o \in RestartOutcomes : X_Restart(o)))
        /\ exit_code = "0" =>
               /\ a_result = "True"
               /\ strategy = "selenium" =>
                      /\ x_result = "True"
                      /\ creds.access # <<>> /\ creds.secret # <<>>
                      /\ env_file = EnvFile(env_lines)
                      /\ Len(env_lines) > 0
        /\ xpc # "idle" => a_result = "True" /\ strategy = "selenium"
        /\ (proxy # "none" /\ exit_code # "none") => exit_code = "0"

\* the Selenium script exits with 0 although the proxy restart could not
\* be started
C19_Witness ==
    /\ strategy = "selenium"
    /\ proxy = "oserror"
    /\ exit_code = "0"

\* C20: when perform_sso_login is over, a browser that was started has been
\* closed exactly once, and if none was ever started nothing was done with
\* the browser name.
C20_BrowserRelease ==
    (strategy \in {"selenium", "playwright"} /\ apc = "returned") =>
        /\ browser # "unbound" => browser = "closed" /\ quits = 1
        /\ browser = "unbound" => quits = 0 /\ unbound_uses = 0

====
